---------------------------- MODULE Spec2Model ----------------------------
(***************************************************************************)
(* otssql: a SQL front end for Tablestore.                                 *)
(*                                                                         *)
(* Two state machines share this module.                                   *)
(*   Spec       the paginated executor, sdk_api/do_query.py: do_query and  *)
(*              the generators search, get_row, get_batch_row, get_range,  *)
(*              run against a store whose responses are nondeterministic.  *)
(*   SelectSpec the access-path selector,                                  *)
(*              strategy/choose_tablestore_index.py.                       *)
(***************************************************************************)
EXTENDS Integers, Sequences, FiniteSets, TLC

VARIABLES
    \* ---- do_query: arguments
    index_type,            \* use_index.index_type
    rows_to_get,           \* use_index.rows_to_get (PRIMARY_KEY_BATCH): the keys
    offset,                \* LIMIT clause: offset
    limit,                 \* LIMIT clause: limit
    max_row_per_request,   \* rows asked of the store per request
    \* ---- do_query: the running generator
    pc,                    \* position in the generator / do_query
    n_yield,               \* rows yielded so far (search, get_range)
    query_result,          \* list(generator): the rows yielded, in order
    primary_key_list,      \* execute_delete: [row[0] for row in query_result]
    search_response,       \* last response of ots_client.search
    row_list,              \* get_range / batch: rows of the last response not yet iterated
    next_start_primary_key,\* get_range: next start key of the last response
    err,                   \* the exception that left do_query, or "none"
    \* ---- the store, as seen on the wire
    calls,                 \* requests issued, in order
    responses,             \* continuation (token / next start key) of each response
    page_sizes,            \* number of rows of each response
    served,                \* rows the store has handed out so far
    \* ---- choose_tablestore_index: arguments and the table they name
    statement,             \* the parsed statement
    table_name,            \* the table; its metadata is TableMeta[table_name]
    \* ---- choose_tablestore_index: the running call
    sel_pc,                \* position in choose_tablestore_index
    index_pos,             \* position of the loop over list_search_index
    described,             \* index names given to describe_search_index, in order
    n_describe_table,      \* describe_table calls issued
    use_index,             \* the UseIndex returned
    lookup_failed,         \* the schema lookup call that failed, or "none"
    sel_err,               \* the exception raised, or "none"
    \* ---- convert_where_clause: argument, position, outcome
    conv_where_clause,     \* the WHERE clause handed to the translator
    conv_pc,               \* position in convert_where_clause
    converted              \* the tablestore query returned, or the exception raised

exec_vars == <<index_type, rows_to_get, offset, limit, max_row_per_request,
               pc, n_yield, query_result, primary_key_list, search_response,
               row_list, next_start_primary_key, err, calls, responses, page_sizes, served>>

sel_vars == <<statement, table_name, sel_pc, index_pos, described,
              n_describe_table, use_index, lookup_failed, sel_err>>

conv_vars == <<conv_where_clause, conv_pc, converted>>

vars == <<exec_vars, sel_vars, conv_vars>>

-----------------------------------------------------------------------------
(* Bounds of the model *)

MaxLimit == 5
MaxPage == 2
MaxCalls == 3
MaxKeys == 3

\* conjuncts of the longest WHERE clause
MaxConjuncts == 3

\* values of max_row_per_request and of offset tried
PerRequestValues == {1, 2}
OffsetValues == {0, 1}

-----------------------------------------------------------------------------
(* objects/index_type.py *)

SEARCH_INDEX == "SEARCH_INDEX"
PRIMARY_KEY_GET == "PRIMARY_KEY_GET"
PRIMARY_KEY_BATCH == "PRIMARY_KEY_BATCH"
PRIMARY_KEY_RANGE == "PRIMARY_KEY_RANGE"

IndexType == {SEARCH_INDEX, PRIMARY_KEY_GET, PRIMARY_KEY_BATCH, PRIMARY_KEY_RANGE}

(* objects/use_index.py: a field left at its default None is "" or <<>> here *)

UseIndex(type, index_name, primary_key, keys, start_key, end_key, direction) ==
    [index_type |-> type, index_name |-> index_name, primary_key |-> primary_key,
     rows_to_get |-> keys, start_key |-> start_key, end_key |-> end_key,
     direction |-> direction]

-----------------------------------------------------------------------------
(* Values on the wire.  Rows are numbered in the order the store hands them *)
(* out; a continuation token is the number of the response that carried it; *)
(* a next start key is the number of the row the next page starts with.     *)

\* Python's None: no token, no next start key, no row, no offset
None == -1

\* use_index.start_key / use_index.end_key of the PRIMARY_KEY_RANGE descriptor
StartKey == 0
EndKey == 1000
FORWARD == "FORWARD"

Min(a, b) == IF a <= b THEN a ELSE b

\* the k rows following the `served` rows already handed out
Page(k) == [i \in 1..k |-> served + i]

NoResponse == [rows |-> <<>>, next_token |-> None]

-----------------------------------------------------------------------------
(* do_query: what the store is asked.  One shape for the four APIs; a field *)
(* an API does not take is None.                                            *)

Request(api, off, lim, token, start, end, direction) ==
    [api |-> api, offset |-> off, limit |-> lim, next_token |-> token,
     inclusive_start_primary_key |-> start, exclusive_end_primary_key |-> end,
     direction |-> direction]

\* search, first request: SearchQuery(query, sort, offset=offset, limit=min(limit, max_row_per_request))
FirstSearchQuery(off, lim, per_request) ==
    Request("search", off, Min(lim, per_request), None, None, None, "")

\* a later request that forgets the token and so asks for the first page again
NextSearchQueryWithoutToken(response, per_request) ==
    Request("search", None, per_request, None, None, None, "")

\* search, later requests: SearchQuery(query, next_token=search_response.next_token, limit=max_row_per_request)
NextSearchQuery(response, per_request) ==
    Request("search", None, per_request, response.next_token, None, None, "")

\* get_range, every request
GetRangeRequest(start, end, per_request) ==
    Request("get_range", None, per_request, None, start, end, FORWARD)

\* a limit test that lets one row too many through
LimitReachedOneLate(n, lim) == n > lim

\* `if n_yield >= limit: return`, evaluated after the yield and the increment
LimitReached(n, lim) == n >= lim

\* a loop test that never sees the end of the pages: `while True:`
TokenAlwaysPresent(response) == TRUE

\* `while search_response.next_token:`
HasNextToken(response) == response.next_token # None

\* `while next_start_primary_key is not None:`
HasNextStart(key) == key # None

\* a get_range loop that starts every page again at the descriptor's start key
NextStartRestarts(key) == StartKey

\* `inclusive_start_primary_key = next_start_primary_key` before a later get_range
NextStart(key) == key

\* a get_range that never looks at offset
OffsetIgnored(off) == FALSE

\* `if offset != 0: raise NotSupportedError(...)`
OffsetNotSupported(off) == off # 0

\* the continuation of the response to request number n: a fresh value, or None
\* when the store says there is nothing more (always so at the last request modelled)
Continuations(n, fresh) == IF n >= MaxCalls THEN {None} ELSE {None, fresh}

-----------------------------------------------------------------------------
(* The machine that is not running: the executor in SelectSpec, the selector *)
(* in Spec.                                                                  *)

NoStatement == [type |-> "None"]
NoUseIndex == UseIndex("None", "", <<>>, <<>>, <<>>, <<>>, "")

SelIdle ==
    /\ statement = NoStatement
    /\ table_name = ""
    /\ sel_pc = "idle"
    /\ index_pos = 0
    /\ described = <<>>
    /\ n_describe_table = 0
    /\ use_index = NoUseIndex
    /\ lookup_failed = "none"
    /\ sel_err = "none"

ExecIdle ==
    /\ index_type = "None"
    /\ rows_to_get = <<>>
    /\ offset = 0
    /\ limit = 0
    /\ max_row_per_request = 0
    /\ pc = "idle"
    /\ n_yield = 0
    /\ query_result = <<>>
    /\ primary_key_list = <<>>
    /\ search_response = NoResponse
    /\ row_list = <<>>
    /\ next_start_primary_key = None
    /\ err = "none"
    /\ calls = <<>>
    /\ responses = <<>>
    /\ page_sizes = <<>>
    /\ served = 0

\* what convert_where_clause has given before it ran
NotConverted == [error |-> "none", query |-> [type |-> "None"]]

ConvIdle ==
    /\ conv_where_clause = [type |-> "None"]
    /\ conv_pc = "idle"
    /\ converted = NotConverted

-----------------------------------------------------------------------------
ExecInit ==
    /\ index_type \in IndexType
    /\ rows_to_get \in IF index_type = PRIMARY_KEY_BATCH
                       THEN {[i \in 1..n |-> i] : n \in 1..MaxKeys}
                       ELSE {<<>>}
    /\ offset \in OffsetValues
    /\ limit \in 0..MaxLimit
    /\ max_row_per_request \in PerRequestValues
    /\ pc = "start"
    /\ n_yield = 0
    /\ query_result = <<>>
    /\ primary_key_list = <<>>
    /\ search_response = NoResponse
    /\ row_list = <<>>
    /\ next_start_primary_key = None
    /\ err = "none"
    /\ calls = <<>>
    /\ responses = <<>>
    /\ page_sizes = <<>>
    /\ served = 0

Init == ExecInit /\ SelIdle /\ ConvIdle

(* ------------------------------ search ------------------------------- *)

\* lines 109-116: n_yield = 0; the first ots_client.search
SearchFirst ==
    /\ pc = "start"
    /\ index_type = SEARCH_INDEX
    /\ \E k \in 0..MaxPage :
       \E token \in Continuations(Len(calls) + 1, Len(calls) + 1) :
          /\ calls' = Append(calls, FirstSearchQuery(offset, limit, max_row_per_request))
          /\ responses' = Append(responses, token)
          /\ page_sizes' = Append(page_sizes, k)
          /\ search_response' = [rows |-> Page(k), next_token |-> token]
          /\ served' = served + k
    /\ pc' = "search_rows"
    /\ UNCHANGED sel_vars
    /\ UNCHANGED conv_vars
    /\ UNCHANGED <<index_type, rows_to_get, offset, limit, max_row_per_request,
                   n_yield, query_result, primary_key_list, row_list,
                   next_start_primary_key, err>>

\* lines 117-121 and 130-134: one turn of `for row in search_response.rows`
SearchYield ==
    /\ pc = "search_rows"
    /\ search_response.rows # <<>>
    /\ query_result' = Append(query_result, Head(search_response.rows))
    /\ n_yield' = n_yield + 1
    /\ IF LimitReached(n_yield', limit)
       THEN /\ pc' = "done"
            /\ UNCHANGED search_response
       ELSE /\ pc' = pc
            /\ search_response' = [search_response EXCEPT !.rows = Tail(@)]
    /\ UNCHANGED sel_vars
    /\ UNCHANGED conv_vars
    /\ UNCHANGED <<index_type, rows_to_get, offset, limit, max_row_per_request,
                   primary_key_list, row_list, next_start_primary_key, err,
                   calls, responses, page_sizes, served>>

\* lines 124-129: the page is iterated, the response has a token: ask for more
SearchNext ==
    /\ pc = "search_rows"
    /\ search_response.rows = <<>>
    /\ HasNextToken(search_response)
    /\ Len(calls) < MaxCalls
    /\ \E k \in 0..MaxPage :
       \E token \in Continuations(Len(calls) + 1, Len(calls) + 1) :
          /\ calls' = Append(calls, NextSearchQuery(search_response, max_row_per_request))
          /\ responses' = Append(responses, token)
          /\ page_sizes' = Append(page_sizes, k)
          /\ search_response' = [rows |-> Page(k), next_token |-> token]
          /\ served' = served + k
    /\ UNCHANGED sel_vars
    /\ UNCHANGED conv_vars
    /\ UNCHANGED <<index_type, rows_to_get, offset, limit, max_row_per_request,
                   pc, n_yield, query_result, primary_key_list, row_list,
                   next_start_primary_key, err>>

\* line 124: the page is iterated and the response has no token: the generator ends
SearchEnd ==
    /\ pc = "search_rows"
    /\ search_response.rows = <<>>
    /\ ~HasNextToken(search_response)
    /\ pc' = "done"
    /\ UNCHANGED sel_vars
    /\ UNCHANGED conv_vars
    /\ UNCHANGED <<index_type, rows_to_get, offset, limit, max_row_per_request,
                   n_yield, query_result, primary_key_list, search_response,
                   row_list, next_start_primary_key, err, calls, responses, page_sizes, served>>

(* ----------------------------- get_range ----------------------------- *)

\* lines 232-233: the generator raises at its first step, inside list(...)
GetRangeRaise ==
    /\ pc = "start"
    /\ index_type = PRIMARY_KEY_RANGE
    /\ OffsetNotSupported(offset)
    /\ pc' = "raised"
    /\ err' = "NotSupportedError"
    /\ UNCHANGED sel_vars
    /\ UNCHANGED conv_vars
    /\ UNCHANGED <<index_type, rows_to_get, offset, limit, max_row_per_request,
                   n_yield, query_result, primary_key_list, search_response,
                   row_list, next_start_primary_key, calls, responses, page_sizes, served>>

\* lines 235-245: n_yield = 0; the first ots_client.get_range
GetRangeFirst ==
    /\ pc = "start"
    /\ index_type = PRIMARY_KEY_RANGE
    /\ ~OffsetNotSupported(offset)
    /\ \E k \in 0..MaxPage :
       \E key \in Continuations(Len(calls) + 1, served + k + 1) :
          /\ calls' = Append(calls, GetRangeRequest(StartKey, EndKey, max_row_per_request))
          /\ responses' = Append(responses, key)
          /\ page_sizes' = Append(page_sizes, k)
          /\ row_list' = Page(k)
          /\ next_start_primary_key' = key
          /\ served' = served + k
    /\ pc' = "range_rows"
    /\ UNCHANGED sel_vars
    /\ UNCHANGED conv_vars
    /\ UNCHANGED <<index_type, rows_to_get, offset, limit, max_row_per_request,
                   n_yield, query_result, primary_key_list, search_response, err>>

\* lines 247-251 and 264-268: one turn of `for row in row_list`
GetRangeYield ==
    /\ pc = "range_rows"
    /\ row_list # <<>>
    /\ query_result' = Append(query_result, Head(row_list))
    /\ n_yield' = n_yield + 1
    /\ IF LimitReached(n_yield', limit)
       THEN /\ pc' = "done"
            /\ UNCHANGED row_list
       ELSE /\ pc' = pc
            /\ row_list' = Tail(row_list)
    /\ UNCHANGED sel_vars
    /\ UNCHANGED conv_vars
    /\ UNCHANGED <<index_type, rows_to_get, offset, limit, max_row_per_request,
                   primary_key_list, search_response, next_start_primary_key, err,
                   calls, responses, page_sizes, served>>

\* lines 254-263: the page is iterated and there is a next start key: ask for more
GetRangeNext ==
    /\ pc = "range_rows"
    /\ row_list = <<>>
    /\ HasNextStart(next_start_primary_key)
    /\ Len(calls) < MaxCalls
    /\ \E k \in 0..MaxPage :
       \E key \in Continuations(Len(calls) + 1, served + k + 1) :
          /\ calls' = Append(calls, GetRangeRequest(NextStart(next_start_primary_key),
                                                    EndKey, max_row_per_request))
          /\ responses' = Append(responses, key)
          /\ page_sizes' = Append(page_sizes, k)
          /\ row_list' = Page(k)
          /\ next_start_primary_key' = key
          /\ served' = served + k
    /\ UNCHANGED sel_vars
    /\ UNCHANGED conv_vars
    /\ UNCHANGED <<index_type, rows_to_get, offset, limit, max_row_per_request,
                   pc, n_yield, query_result, primary_key_list, search_response, err>>

\* line 254: the page is iterated and there is no next start key: the generator ends
GetRangeEnd ==
    /\ pc = "range_rows"
    /\ row_list = <<>>
    /\ ~HasNextStart(next_start_primary_key)
    /\ pc' = "done"
    /\ UNCHANGED sel_vars
    /\ UNCHANGED conv_vars
    /\ UNCHANGED <<index_type, rows_to_get, offset, limit, max_row_per_request,
                   n_yield, query_result, primary_key_list, search_response,
                   row_list, next_start_primary_key, err, calls, responses, page_sizes, served>>

(* ------------------------------ get_row ------------------------------ *)

\* lines 160-165: one ots_client.get_row, then `yield [return_row.primary_key, ...]`.
\* return_row is None when the key has no row: reading its attribute raises.
GetRow ==
    /\ pc = "start"
    /\ index_type = PRIMARY_KEY_GET
    /\ calls' = Append(calls, Request("get_row", None, None, None, None, None, ""))
    /\ \E return_row \in {None, served + 1} :
          /\ responses' = Append(responses, return_row)
          /\ page_sizes' = Append(page_sizes, IF return_row = None THEN 0 ELSE 1)
          /\ IF return_row = None
             THEN /\ pc' = "raised"
                  /\ err' = "AttributeError"
                  /\ UNCHANGED <<query_result, served>>
             ELSE /\ pc' = "done"
                  /\ query_result' = Append(query_result, return_row)
                  /\ served' = served + 1
                  /\ UNCHANGED err
    /\ UNCHANGED sel_vars
    /\ UNCHANGED conv_vars
    /\ UNCHANGED <<index_type, rows_to_get, offset, limit, max_row_per_request,
                   n_yield, primary_key_list, search_response, row_list,
                   next_start_primary_key>>

(* ---------------------------- get_batch_row -------------------------- *)

\* lines 191-194: one ots_client.batch_get_row for all the keys
GetBatchRow ==
    /\ pc = "start"
    /\ index_type = PRIMARY_KEY_BATCH
    /\ calls' = Append(calls, Request("batch_get_row", None, None, None, None, None, ""))
    /\ responses' = Append(responses, None)
    /\ \E k \in 0..Len(rows_to_get) :
          /\ row_list' = Page(k)
          /\ page_sizes' = Append(page_sizes, k)
          /\ served' = served + k
    /\ pc' = "batch_rows"
    /\ UNCHANGED sel_vars
    /\ UNCHANGED conv_vars
    /\ UNCHANGED <<index_type, rows_to_get, offset, limit, max_row_per_request,
                   n_yield, query_result, primary_key_list, search_response,
                   next_start_primary_key, err>>

\* lines 195-196: one turn of `for item in table_result`
GetBatchRowYield ==
    /\ pc = "batch_rows"
    /\ row_list # <<>>
    /\ query_result' = Append(query_result, Head(row_list))
    /\ row_list' = Tail(row_list)
    /\ UNCHANGED sel_vars
    /\ UNCHANGED conv_vars
    /\ UNCHANGED <<index_type, rows_to_get, offset, limit, max_row_per_request,
                   pc, n_yield, primary_key_list, search_response,
                   next_start_primary_key, err, calls, responses, page_sizes, served>>

\* line 195: table_result is iterated: the generator ends
GetBatchRowEnd ==
    /\ pc = "batch_rows"
    /\ row_list = <<>>
    /\ pc' = "done"
    /\ UNCHANGED sel_vars
    /\ UNCHANGED conv_vars
    /\ UNCHANGED <<index_type, rows_to_get, offset, limit, max_row_per_request,
                   n_yield, query_result, primary_key_list, search_response,
                   row_list, next_start_primary_key, err, calls, responses, page_sizes, served>>

(* --------------------- execute_delete / execute_update --------------- *)

\* do_query returns query_result; the caller takes row[0] of every row and
\* hands the keys to do_multi_delete / do_multi_update
HarvestPrimaryKeys ==
    /\ pc = "done"
    /\ primary_key_list' = query_result
    /\ pc' = "returned"
    /\ UNCHANGED sel_vars
    /\ UNCHANGED conv_vars
    /\ UNCHANGED <<index_type, rows_to_get, offset, limit, max_row_per_request,
                   n_yield, query_result, search_response, row_list,
                   next_start_primary_key, err, calls, responses, page_sizes, served>>

Next ==
    \/ SearchFirst \/ SearchYield \/ SearchNext \/ SearchEnd
    \/ GetRangeRaise \/ GetRangeFirst \/ GetRangeYield \/ GetRangeNext \/ GetRangeEnd
    \/ GetRow
    \/ GetBatchRow \/ GetBatchRowYield \/ GetBatchRowEnd
    \/ HarvestPrimaryKeys

Spec == Init /\ [][Next]_vars

\* list(...) in do_query drives the generator to its end: a step that can be
\* taken is taken
LiveSpec == Spec /\ WF_vars(Next)

-----------------------------------------------------------------------------
(* Properties of the paginated executor (Spec) *)

Paginated == index_type \in {SEARCH_INDEX, PRIMARY_KEY_RANGE}

\* C1: whatever the access descriptor, the limit (>= 0) and the pages the store
\* returns, do_query produces at most `limit` rows, so execute_delete and
\* execute_update act on at most `limit` primary keys.
C1_AtMostLimitRows ==
    /\ Len(query_result) <= limit
    /\ Len(primary_key_list) <= limit

\* C2: in search and get_range, once `limit` rows have been yielded no further
\* ots_client.search / ots_client.get_range is issued.
C2_NoCallAfterLimit ==
    [][(Paginated /\ calls # <<>> /\ Len(query_result) >= limit) => calls' = calls]_vars

\* C3: in a SearchIndex execution the first search carries `offset`, page limit
\* min(limit, max_row_per_request) and no token; every later search carries the
\* token of the response just before it, no offset and page limit
\* max_row_per_request; no search follows a response without a token.
C3_SearchRequests ==
    index_type = SEARCH_INDEX =>
        \A i \in 1..Len(calls) :
            /\ calls[i].api = "search"
            /\ IF i = 1
               THEN /\ calls[i].offset = offset
                    /\ calls[i].limit = (IF limit < max_row_per_request
                                         THEN limit ELSE max_row_per_request)
                    /\ calls[i].next_token = None
               ELSE /\ responses[i - 1] # None
                    /\ calls[i].next_token = responses[i - 1]
                    /\ calls[i].offset = None
                    /\ calls[i].limit = max_row_per_request

\* C3 witness: three searches, the first capped by limit and carrying an offset
C3_Witness ==
    /\ index_type = SEARCH_INDEX
    /\ Len(calls) = 3
    /\ offset # 0
    /\ limit < max_row_per_request
    /\ responses[1] # responses[2]

\* C4: in a PrimaryKeyRange execution every get_range after the first starts
\* (inclusively) at the next start key of the response just before it, keeps
\* the descriptor's end key and the FORWARD direction, asks for at most
\* max_row_per_request rows, and none follows a response without next start key.
C4_RangeRequests ==
    index_type = PRIMARY_KEY_RANGE =>
        \A i \in 1..Len(calls) :
            /\ calls[i].api = "get_range"
            /\ calls[i].exclusive_end_primary_key = EndKey
            /\ calls[i].direction = FORWARD
            /\ calls[i].limit = max_row_per_request
            /\ i > 1 => /\ responses[i - 1] # None
                        /\ calls[i].inclusive_start_primary_key = responses[i - 1]

\* C4 witness: three get_range calls, the two next start keys differing
C4_Witness ==
    /\ index_type = PRIMARY_KEY_RANGE
    /\ Len(calls) = 3
    /\ responses[1] # responses[2]
    /\ query_result # <<>>

\* C5: a PrimaryKeyRange execution with offset # 0 fails with NotSupportedError,
\* yields no row and issues no get_range; with offset = 0 it never raises it.
C5_RangeOffset ==
    index_type = PRIMARY_KEY_RANGE =>
        /\ offset # 0 => /\ calls = <<>>
                         /\ query_result = <<>>
                         /\ pc \in {"start", "raised"}
                         /\ pc = "raised" => err = "NotSupportedError"
        /\ offset = 0 => err # "NotSupportedError" /\ pc # "raised"

\* C5 witness: the range execution with an offset has raised
C5_Witness ==
    /\ index_type = PRIMARY_KEY_RANGE
    /\ offset # 0
    /\ pc = "raised"
    /\ err = "NotSupportedError"

\* C6: a PrimaryKeyGet execution issues exactly one get_row and produces zero
\* rows when the store returns no row for the key, one row when it returns one.
C6_GetRowZeroOrOne ==
    (index_type = PRIMARY_KEY_GET /\ pc # "start") =>
        /\ Len(calls) = 1
        /\ calls[1].api = "get_row"
        /\ err = "none"
        /\ pc \in {"done", "returned"}
        /\ Len(query_result) = (IF responses[1] = None THEN 0 ELSE 1)

\* a search with limit 5 and pages of at most 2 rows, against a store whose
\* responses so far each held 2 rows, the first two with a token, the third without
PagesOfTwo ==
    /\ index_type = SEARCH_INDEX
    /\ limit = 5
    /\ max_row_per_request = 2
    /\ \A i \in 1..Len(responses) :
          /\ page_sizes[i] = 2
          /\ (responses[i] # None) <=> (i < 3)

\* C13: a SearchIndex execution with limit 5, max_row_per_request 2 and three
\* store pages of 2, 2 and 2 rows, the first two responses carrying a token,
\* issues exactly 3 searches and yields exactly the first 5 rows in store order.
C13_ThreePagesFiveRows ==
    PagesOfTwo =>
        /\ Len(calls) <= 3
        /\ Len(query_result) <= 5
        /\ pc \in {"done", "returned"} =>
              /\ Len(calls) = 3
              /\ query_result = <<1, 2, 3, 4, 5>>

\* C13 witness: that execution has ended
C13_Witness ==
    /\ PagesOfTwo
    /\ pc = "done"
    /\ Len(responses) = 3

\* the generator has ended: by returning or by raising
Ended == pc \in {"done", "returned", "raised"}

-----------------------------------------------------------------------------
(***************************************************************************)
(* The access-path selector: strategy/choose_tablestore_index.py           *)
(***************************************************************************)

(* The predicate AST (metasequoia_sql.node), one record per node class *)

Column(name) == [type |-> "ASTColumnNameExpression", column_name |-> name]

\* a literal keeps its source text, a sequence of characters: 'us' is <<"'","u","s","'">>
Literal(source) == [type |-> "ASTLiteralExpression", source |-> source]

Comparison(before, op, after) ==
    [type |-> "ASTOperatorConditionExpression", operator |-> op,
     before_value |-> before, after_value |-> after]

SubValue(values) == [type |-> "ASTSubValueExpression", values |-> values]

InExpr(before, is_not, values) ==
    [type |-> "ASTInExpression", is_not |-> is_not,
     before_value |-> before, after_value |-> SubValue(values)]

Between(before, is_not, from, to) ==
    [type |-> "ASTBetweenExpression", is_not |-> is_not,
     before_value |-> before, from_value |-> from, to_value |-> to]

IsExpr(before, is_not, after) ==
    [type |-> "ASTIsExpression", is_not |-> is_not,
     before_value |-> before, after_value |-> after]

LikeExpr(before, is_not, after) ==
    [type |-> "ASTLikeExpression", is_not |-> is_not,
     before_value |-> before, after_value |-> after]

And(before, after) ==
    [type |-> "ASTLogicalAndExpression", before_value |-> before, after_value |-> after]

Or(before, after) ==
    [type |-> "ASTLogicalOrExpression", before_value |-> before, after_value |-> after]

Xor(before, after) ==
    [type |-> "ASTLogicalXorExpression", before_value |-> before, after_value |-> after]

Not(expression) == [type |-> "ASTLogicalNotExpression", expression |-> expression]

WhereClause(condition) == [type |-> "ASTWhereClause", condition |-> condition]

\* statement.where_clause of a statement without WHERE
NoWhereClause == [type |-> "None"]

IsColumn(node) == node.type = "ASTColumnNameExpression"
IsLiteral(node) == node.type = "ASTLiteralExpression"

(* `.as_string().strip("'")` and `.source().strip("'")`: the source text with *)
(* every leading and every trailing quote character removed                  *)

RECURSIVE LStrip(_)
LStrip(chars) ==
    IF chars # <<>> /\ Head(chars) = "'" THEN LStrip(Tail(chars)) ELSE chars

RECURSIVE RStrip(_)
RStrip(chars) ==
    IF chars # <<>> /\ chars[Len(chars)] = "'"
    THEN RStrip(SubSeq(chars, 1, Len(chars) - 1))
    ELSE chars

Strip(chars) == RStrip(LStrip(chars))

(* -------------------- get_condition_in_where_clause ------------------ *)

\* what a call gives: the list it returns, or the exception it raises
Returned(conditions) == [error |-> "none", conditions |-> conditions]
Raised(error) == [error |-> error, conditions |-> <<>>]

\* lines 200-262: the operator of the condition emitted for `before op after`,
\* by the side the column is on; "raise" where the code raises NotSupportedError
EmittedOperator(op, column_first) ==
    CASE op = "="  -> "="
      [] op = "<"  -> IF column_first THEN "<" ELSE "raise"
      [] op = "<=" -> IF column_first THEN "raise" ELSE ">="
      [] op = ">"  -> IF column_first THEN "raise" ELSE "<"
      [] op = ">=" -> IF column_first THEN ">=" ELSE "raise"
      [] op = "!=" -> "raise"
      [] OTHER     -> "fall through"

\* lines 199-262: a comparison node
ComparisonCondition(node) ==
    LET op == node.operator
        column_first == IsColumn(node.before_value) /\ IsLiteral(node.after_value)
        literal_first == IsLiteral(node.before_value) /\ IsColumn(node.after_value)
        column == IF column_first THEN node.before_value ELSE node.after_value
        literal == IF column_first THEN node.after_value ELSE node.before_value
        emitted == EmittedOperator(op, column_first)
    IN  IF emitted = "fall through" THEN Raised("KeyError")
        ELSE IF op = "!=" THEN Raised("NotSupportedError")
        ELSE IF ~(column_first \/ literal_first) THEN Raised("NotSupportedError")
        ELSE IF emitted = "raise" THEN Raised("NotSupportedError")
        ELSE Returned(<< <<column.column_name, emitted, Strip(literal.source)>> >>)

\* lines 267-275: an IN node; is_not is not looked at
InCondition(node) ==
    IF ~IsColumn(node.before_value) THEN Raised("NotSupportedError")
    ELSE IF node.after_value.type # "ASTSubValueExpression" THEN Raised("NotSupportedError")
    ELSE Returned(<< <<node.before_value.column_name, "IN",
                       [i \in 1..Len(node.after_value.values) |->
                            Strip(node.after_value.values[i].source)]>> >>)

\* an And branch that keeps the constraints of its right side only
RightSideOnly(condition1, condition2) == condition2

\* line 281: `return condition1 + condition2`
Concatenated(condition1, condition2) == condition1 \o condition2

\* lines 191-288
RECURSIVE get_condition_in_where_clause(_)
get_condition_in_where_clause(ast_node) ==
    CASE ast_node.type = "ASTOperatorConditionExpression" -> ComparisonCondition(ast_node)
      [] ast_node.type = "ASTBetweenExpression" -> Raised("NotSupportedError")
      [] ast_node.type = "ASTIsExpression" -> Raised("NotSupportedError")
      [] ast_node.type = "ASTInExpression" -> InCondition(ast_node)
      [] ast_node.type = "ASTLikeExpression" -> Raised("NotSupportedError")
      [] ast_node.type = "ASTLogicalAndExpression" ->
            LET condition1 == get_condition_in_where_clause(ast_node.before_value)
                condition2 == get_condition_in_where_clause(ast_node.after_value)
            IN  IF condition1.error # "none" THEN condition1
                ELSE IF condition2.error # "none" THEN condition2
                ELSE Returned(Concatenated(condition1.conditions, condition2.conditions))
      [] ast_node.type = "ASTLogicalOrExpression" -> Raised("NotSupportedError")
      [] ast_node.type = "ASTLogicalNotExpression" -> Raised("NotSupportedError")
      [] ast_node.type = "ASTLogicalXorExpression" -> Raised("NotSupportedError")
      [] OTHER -> Raised("KeyError")

(* ------------- choose_tablestore_index, lines 103-188 ---------------- *)

\* tablestore.INF_MIN / tablestore.INF_MAX: no stripped literal equals them
INF_MIN == <<"INF_MIN">>
INF_MAX == <<"INF_MAX">>

\* lines 105-107: condition_of_field[field_name], the (op, value) pairs in WHERE order
ConditionOfField(conditions, field_name) ==
    LET mine == SelectSeq(conditions, LAMBDA c : c[1] = field_name)
    IN  [i \in 1..Len(mine) |-> <<mine[i][2], mine[i][3]>>]

\* Python orders the operator strings by code point
OpRank(op) ==
    CASE op = "<" -> 1 [] op = "<=" -> 2 [] op = "=" -> 3
      [] op = ">" -> 4 [] op = ">=" -> 5 [] OTHER -> 6

\* line 120: condition.sort() of two (op, value) pairs.  Pairs with the same
\* operator are ordered by value; line 121 rejects them in either order.
SortConditions(condition) ==
    IF OpRank(condition[2][1]) < OpRank(condition[1][1])
    THEN <<condition[2], condition[1]>>
    ELSE condition

FieldPlan(error, entry, must_range, must_accurate) ==
    [error |-> error, entry |-> entry, must_range |-> must_range,
     must_accurate |-> must_accurate]

\* a two-condition branch that takes the bounds in the order sorted, `<` first
TwoConditionsSwapped(field_name, sorted) ==
    FieldPlan("none", <<field_name, "RANGE", sorted[1][2], sorted[2][2]>>, TRUE, FALSE)

\* line 123: the `>=` value is the lower bound, the `<` value the upper bound
TwoConditions(field_name, sorted) ==
    FieldPlan("none", <<field_name, "RANGE", sorted[2][2], sorted[1][2]>>, TRUE, FALSE)

\* a test that takes every pair of conditions
AnyPair(sorted) == TRUE

\* line 121, negated: the sorted pair is a `<` followed by a `>=`
LessThenAtLeast(sorted) == sorted[1][1] = "<" /\ sorted[2][1] = ">="

\* lines 113-141: one turn of `for field_name in primary_key_list`
PlanField(field_name, condition) ==
    CASE Len(condition) = 0 ->
            FieldPlan("none", <<field_name, "RANGE", INF_MIN, INF_MAX>>, TRUE, FALSE)
      [] Len(condition) = 2 ->
            LET sorted == SortConditions(condition)
            IN  IF ~LessThenAtLeast(sorted)
                THEN FieldPlan("NotSupportedError", <<>>, FALSE, FALSE)
                ELSE TwoConditions(field_name, sorted)
      [] Len(condition) = 1 ->
            LET op == condition[1][1]
                value == condition[1][2]
            IN  CASE op = "IN" -> FieldPlan("none", <<field_name, "IN", value, value>>, FALSE, TRUE)
                  [] op = "="  -> FieldPlan("none", <<field_name, "=", value, value>>, FALSE, FALSE)
                  [] op = "<"  -> FieldPlan("none", <<field_name, "RANGE", INF_MIN, value>>, TRUE, FALSE)
                  [] op = ">=" -> FieldPlan("none", <<field_name, "RANGE", value, INF_MAX>>, TRUE, FALSE)
                  [] OTHER     -> FieldPlan("ProgrammingError", <<>>, FALSE, FALSE)
      [] OTHER -> FieldPlan("NotSupportedError", <<>>, FALSE, FALSE)

\* a loop over the fields in the order the WHERE clause first names them,
\* the fields it does not name last
FieldOrderOfWhere(primary_key_fields, conditions) ==
    LET named == [i \in 1..Len(conditions) |-> conditions[i][1]]
        index == [i \in 1..Len(named) |-> i]
        first_index == SelectSeq(index, LAMBDA i : \A j \in 1..(i - 1) : named[j] # named[i])
        first == [k \in 1..Len(first_index) |-> named[first_index[k]]]
        rest == SelectSeq(primary_key_fields, LAMBDA f : \A k \in 1..Len(first) : first[k] # f)
    IN  first \o rest

\* line 112: the loop runs over primary_key_list as describe_table gave it
FieldOrder(primary_key_fields, conditions) == primary_key_fields

\* lines 109-141: the loop; the first field that raises ends it
RECURSIVE PlanFields(_, _)
PlanFields(fields, conditions) ==
    IF fields = <<>>
    THEN [error |-> "none", primary_key_conditions |-> <<>>,
          must_range |-> FALSE, must_accurate |-> FALSE]
    ELSE LET head == PlanField(Head(fields), ConditionOfField(conditions, Head(fields)))
             rest == PlanFields(Tail(fields), conditions)
         IN  IF head.error # "none"
             THEN [error |-> head.error, primary_key_conditions |-> <<>>,
                   must_range |-> FALSE, must_accurate |-> FALSE]
             ELSE IF rest.error # "none" THEN rest
             ELSE [error |-> "none",
                   primary_key_conditions |-> <<head.entry>> \o rest.primary_key_conditions,
                   must_range |-> head.must_range \/ rest.must_range,
                   must_accurate |-> head.must_accurate \/ rest.must_accurate]

\* an accurate-mode / range-mode test that lets every plan through
ModesNeverConflict(must_accurate, must_range) == FALSE

\* line 143: `if must_accurate and must_range: raise NotSupportedError`
ModesConflict(must_accurate, must_range) == must_accurate /\ must_range

\* an IN branch with the loops exchanged: `for v in value: for key in last_primary_key`
ExtendKeysValueLoopOutside(last_primary_key, entry) ==
    IF entry[2] = "="
    THEN [i \in 1..Len(last_primary_key) |->
              Append(last_primary_key[i], <<entry[1], entry[3]>>)]
    ELSE [j \in 1..(Len(last_primary_key) * Len(entry[3])) |->
              Append(last_primary_key[((j - 1) % Len(last_primary_key)) + 1],
                     <<entry[1], entry[3][((j - 1) \div Len(last_primary_key)) + 1]>>)]

\* lines 152-160: new_primary_key of one turn of the loop over primary_key_conditions
ExtendKeys(last_primary_key, entry) ==
    IF entry[2] = "="
    THEN [i \in 1..Len(last_primary_key) |->
              Append(last_primary_key[i], <<entry[1], entry[3]>>)]
    ELSE [j \in 1..(Len(last_primary_key) * Len(entry[3])) |->
              Append(last_primary_key[((j - 1) \div Len(entry[3])) + 1],
                     <<entry[1], entry[3][((j - 1) % Len(entry[3])) + 1]>>)]

\* lines 149-161: rows_to_get, from last_primary_key = [tuple()]
RECURSIVE PrimaryKeys(_, _)
PrimaryKeys(primary_key_conditions, last_primary_key) ==
    IF primary_key_conditions = <<>>
    THEN last_primary_key
    ELSE PrimaryKeys(Tail(primary_key_conditions),
                     ExtendKeys(last_primary_key, Head(primary_key_conditions)))

\* what choose_tablestore_index gives: the UseIndex it returns or the exception raised
Selected(descriptor) == [error |-> "none", use_index |-> descriptor]
Failed(error) == [error |-> error, use_index |-> NoUseIndex]

\* lines 147-173: the plan is not range-mode
AccuratePlan(primary_key_conditions) ==
    IF \E i \in 1..Len(primary_key_conditions) :
            primary_key_conditions[i][2] \notin {"=", "IN"}
    THEN Failed("AssertionError")
    ELSE LET keys == PrimaryKeys(primary_key_conditions, << <<>> >>)
         IN  IF Len(keys) = 1
             THEN Selected(UseIndex(PRIMARY_KEY_GET, "", keys[1], <<>>, <<>>, <<>>, ""))
             ELSE Selected(UseIndex(PRIMARY_KEY_BATCH, "", <<>>, keys, <<>>, <<>>, ""))

\* lines 175-188: the plan is range-mode
RangePlan(primary_key_conditions) ==
    IF \E i \in 1..Len(primary_key_conditions) :
            primary_key_conditions[i][2] \notin {"=", "RANGE"}
    THEN Failed("AssertionError")
    ELSE Selected(UseIndex(PRIMARY_KEY_RANGE, "", <<>>, <<>>,
            [i \in 1..Len(primary_key_conditions) |->
                <<primary_key_conditions[i][1], primary_key_conditions[i][3]>>],
            [i \in 1..Len(primary_key_conditions) |->
                <<primary_key_conditions[i][1], primary_key_conditions[i][4]>>],
            FORWARD))

\* lines 103-188: from the WHERE clause and the primary key to the descriptor
PrimaryKeyPlan(primary_key_fields, where_clause) ==
    IF where_clause = NoWhereClause
    THEN Failed("AttributeError")   \* line 104: `.condition` of None
    ELSE LET extracted == get_condition_in_where_clause(where_clause.condition)
             plan == PlanFields(FieldOrder(primary_key_fields, extracted.conditions),
                                extracted.conditions)
         IN  IF extracted.error # "none" THEN Failed(extracted.error)
             ELSE IF plan.error # "none" THEN Failed(plan.error)
             ELSE IF ModesConflict(plan.must_accurate, plan.must_range)
                  THEN Failed("NotSupportedError")
             ELSE IF ~plan.must_range THEN AccuratePlan(plan.primary_key_conditions)
             ELSE RangePlan(plan.primary_key_conditions)

-----------------------------------------------------------------------------
(* The statements and tables the selector is run on *)

Lit_us == Literal(<<"'", "u", "s", "'">>)
Lit_a == Literal(<<"'", "a", "'">>)
Lit_b == Literal(<<"'", "b", "'">>)
Lit_10 == Literal(<<"1", "0">>)
Lit_20 == Literal(<<"2", "0">>)
Lit_null == Literal(<<"N", "U", "L", "L">>)

PrimaryKeyColumns == {"region", "id"}

\* comparisons and IN lists the extractor takes, on a primary-key column
AcceptedLeaves ==
    UNION {{ Comparison(Column(c), "=", Lit_us), Comparison(Lit_us, "=", Column(c)),
             Comparison(Column(c), "=", Lit_10),
             Comparison(Column(c), "<", Lit_20), Comparison(Lit_20, ">", Column(c)),
             Comparison(Column(c), ">=", Lit_10), Comparison(Lit_10, "<=", Column(c)),
             InExpr(Column(c), FALSE, <<Lit_a, Lit_b>>),
             InExpr(Column(c), FALSE, <<Lit_a>>) } : c \in PrimaryKeyColumns}

\* predicates on other columns, and the shapes the extractor refuses
OtherLeaves ==
    { Comparison(Column("status"), "=", Lit_us),
      Comparison(Column("id"), "<=", Lit_20), Comparison(Column("id"), ">", Lit_10),
      Comparison(Lit_10, "<", Column("id")), Comparison(Lit_20, ">=", Column("id")),
      Comparison(Column("id"), "!=", Lit_10),
      Comparison(Column("id"), "=", Column("region")),
      Comparison(Column("id"), "<>", Lit_10),
      Between(Column("id"), FALSE, Lit_10, Lit_20),
      IsExpr(Column("id"), FALSE, Lit_null),
      IsExpr(Column("id"), TRUE, Lit_null),
      LikeExpr(Column("id"), FALSE, Lit_a),
      InExpr(Column("id"), TRUE, <<Lit_a, Lit_b>>),
      Or(Comparison(Column("id"), "=", Lit_10), Comparison(Column("id"), "=", Lit_20)),
      Xor(Comparison(Column("id"), "=", Lit_10), Comparison(Column("region"), "=", Lit_us)),
      Not(Comparison(Column("id"), "=", Lit_10)) }

Leaves == AcceptedLeaves \cup OtherLeaves

\* the conjuncts of the clauses of more than two conjuncts
CoreLeaves ==
    { Comparison(Column("region"), "=", Lit_us),
      Comparison(Column("id"), ">=", Lit_10),
      Comparison(Column("id"), "<", Lit_20),
      Comparison(Column("id"), "=", Lit_10),
      Comparison(Column("region"), "<", Lit_20),
      InExpr(Column("region"), FALSE, <<Lit_a, Lit_b>>) }

\* a AND b AND c as the parser nests it, And(And(a, b), c)
RECURSIVE LeftAnd(_)
LeftAnd(leaves) ==
    IF Len(leaves) = 1 THEN leaves[1]
    ELSE And(LeftAnd(SubSeq(leaves, 1, Len(leaves) - 1)), leaves[Len(leaves)])

\* a AND (b AND c)
RECURSIVE RightAnd(_)
RightAnd(leaves) ==
    IF Len(leaves) = 1 THEN leaves[1]
    ELSE And(leaves[1], RightAnd(Tail(leaves)))

Conditions ==
    Leaves
    \cup {And(a, b) : a \in Leaves, b \in Leaves}
    \cup UNION {{LeftAnd(l) : l \in [1..n -> CoreLeaves]} : n \in 3..MaxConjuncts}
    \cup UNION {{RightAnd(l) : l \in [1..n -> CoreLeaves]} : n \in 3..MaxConjuncts}

WhereClauses == {NoWhereClause} \cup {WhereClause(c) : c \in Conditions}

\* the statement as choose_tablestore_index reads it: its class, the columns
\* get_aggregation_columns_in_node / get_columns_in_node give for the SELECT,
\* GROUP BY and ORDER BY clauses, the aliases of the SELECT list, the WHERE clause
Statement(type, aggregation, group_by, alias, order_by, where_clause) ==
    [type |-> type, aggregation_columns |-> aggregation, group_by_columns |-> group_by,
     alias_set |-> alias, order_by_columns |-> order_by, where_clause |-> where_clause]

SELECT == "ASTSingleSelectStatement"
UPDATE == "ASTUpdateStatement"
DELETE == "ASTDeleteStatement"

\* clauses of at most one predicate
SimpleWhereClauses == {NoWhereClause} \cup {WhereClause(c) : c \in Leaves}

Statements ==
    UNION {{ Statement(SELECT, {}, {}, {}, {}, w),                \* SELECT a FROM t
             Statement(DELETE, {}, {}, {}, {}, w) } : w \in WhereClauses}
    \cup
    UNION {{ Statement(SELECT, {"*"}, {}, {}, {}, w),             \* SELECT COUNT(*)
             Statement(SELECT, {"amount"}, {}, {}, {}, w),        \* SELECT SUM(amount)
             Statement(SELECT, {}, {"status"}, {}, {}, w),        \* GROUP BY status
             Statement(SELECT, {}, {}, {}, {"id"}, w),            \* ORDER BY id
             Statement(SELECT, {}, {"status"}, {}, {"id"}, w),    \* GROUP BY status ORDER BY id
             Statement(SELECT, {}, {}, {"total"}, {"total"}, w),  \* SELECT a AS total ORDER BY total
             Statement(UPDATE, {}, {}, {}, {"id"}, w) } : w \in SimpleWhereClauses}
    \cup {Statement("ASTInsertStatement", {}, {}, {}, {}, NoWhereClause)}

\* describe_table: schema_of_primary_key, in order
PrimaryKeyOf(table) ==
    CASE table = "by_region_id" -> <<"region", "id">>
      [] table = "by_id_region" -> <<"id", "region">>
      [] OTHER -> <<"id">>

\* list_search_index: the index names, in the order the store reports them
SearchIndexesOf(table) ==
    CASE table = "by_id_region" -> <<"idx_id">>
      [] table = "indexed" -> <<"idx_pk", "idx_wide", "idx_all">>
      [] OTHER -> <<>>

\* describe_search_index: the field names of index_meta.fields
IndexFieldsOf(table, index_name) ==
    CASE index_name = "idx_id" -> {"id"}
      [] index_name = "idx_pk" -> {"id", "region"}
      [] index_name = "idx_wide" -> {"id", "region", "status"}
      [] OTHER -> {"id", "region", "status", "amount"}

Tables == {"by_region_id", "by_id_region", "by_id", "indexed"}

(* ------------- choose_tablestore_index, lines 49-101 ------------------ *)

\* get_columns_in_node: the names of the column references under a node
RECURSIVE get_columns_in_node(_)
get_columns_in_node(ast_node) ==
    CASE ast_node.type = "ASTColumnNameExpression" -> {ast_node.column_name}
      [] ast_node.type = "ASTWhereClause" -> get_columns_in_node(ast_node.condition)
      [] ast_node.type \in {"ASTOperatorConditionExpression", "ASTIsExpression",
                            "ASTLikeExpression", "ASTLogicalAndExpression",
                            "ASTLogicalOrExpression", "ASTLogicalXorExpression"} ->
            get_columns_in_node(ast_node.before_value)
                \cup get_columns_in_node(ast_node.after_value)
      [] ast_node.type = "ASTInExpression" -> get_columns_in_node(ast_node.before_value)
      [] ast_node.type = "ASTBetweenExpression" ->
            get_columns_in_node(ast_node.before_value)
                \cup get_columns_in_node(ast_node.from_value)
                \cup get_columns_in_node(ast_node.to_value)
      [] ast_node.type = "ASTLogicalNotExpression" -> get_columns_in_node(ast_node.expression)
      [] OTHER -> {}

IsSelect(stmt) == stmt.type = SELECT

\* lines 59-65
OtherFieldSet(stmt) ==
    IF IsSelect(stmt)
    THEN (stmt.aggregation_columns \ {"*"}) \cup stmt.group_by_columns
    ELSE {}

\* lines 66-67
WhereFieldSet(stmt) == get_columns_in_node(stmt.where_clause)

\* lines 70-76
OrderFieldSet(stmt) ==
    stmt.order_by_columns \ (IF IsSelect(stmt) THEN stmt.alias_set ELSE {})

\* line 79
NeedFieldSet(stmt) == OtherFieldSet(stmt) \cup WhereFieldSet(stmt) \cup OrderFieldSet(stmt)

\* a test that also takes an index holding exactly the needed fields
QualifiesWhenEqual(index_field_set, need_field_set) == need_field_set \subseteq index_field_set

\* line 82: `index_field_set > need_field_set`, Python's proper-superset test
Qualifies(index_field_set, need_field_set) ==
    need_field_set \subseteq index_field_set /\ need_field_set # index_field_set

-----------------------------------------------------------------------------
SelectInit ==
    /\ statement \in Statements
    /\ table_name \in Tables
    /\ sel_pc = "start"
    /\ index_pos = 0
    /\ described = <<>>
    /\ n_describe_table = 0
    /\ use_index = NoUseIndex
    /\ lookup_failed = "none"
    /\ sel_err = "none"
    /\ ExecIdle
    /\ ConvIdle

\* lines 49-50: a statement that is no SELECT, UPDATE or DELETE
RejectStatement ==
    /\ sel_pc = "start"
    /\ statement.type \notin {SELECT, UPDATE, DELETE}
    /\ sel_pc' = "raised"
    /\ sel_err' = "NotSupportedError"
    /\ UNCHANGED <<statement, table_name, index_pos, described, n_describe_table, use_index>>
    /\ UNCHANGED lookup_failed
    /\ UNCHANGED exec_vars
    /\ UNCHANGED conv_vars

\* lines 52-80: the field sets, then ots_client.list_search_index
ListSearchIndex ==
    /\ sel_pc = "start"
    /\ statement.type \in {SELECT, UPDATE, DELETE}
    /\ sel_pc' = "indexes"
    /\ index_pos' = 1
    /\ UNCHANGED <<statement, table_name, described, n_describe_table, use_index, sel_err>>
    /\ UNCHANGED lookup_failed
    /\ UNCHANGED exec_vars
    /\ UNCHANGED conv_vars

\* the exceptions the tablestore client raises when a call fails
OTSErrors == {"OTSClientError", "OTSServiceError"}

\* line 80: ots_client.list_search_index fails; nothing catches its exception
ListSearchIndexFails ==
    /\ sel_pc = "start"
    /\ statement.type \in {SELECT, UPDATE, DELETE}
    /\ sel_pc' = "raised"
    /\ sel_err' \in OTSErrors
    /\ lookup_failed' = "list_search_index"
    /\ UNCHANGED <<statement, table_name, index_pos, described, n_describe_table, use_index>>
    /\ UNCHANGED exec_vars
    /\ UNCHANGED conv_vars

\* line 81, get_search_index_field_set: ots_client.describe_search_index fails;
\* nothing catches its exception
DescribeSearchIndexFails ==
    /\ sel_pc = "indexes"
    /\ index_pos <= Len(SearchIndexesOf(table_name))
    /\ described' = Append(described, SearchIndexesOf(table_name)[index_pos])
    /\ sel_pc' = "raised"
    /\ sel_err' \in OTSErrors
    /\ lookup_failed' = "describe_search_index"
    /\ UNCHANGED <<statement, table_name, index_pos, n_describe_table, use_index>>
    /\ UNCHANGED exec_vars
    /\ UNCHANGED conv_vars

\* line 91, get_primary_key_field_list: ots_client.describe_table fails and the
\* except clause raises ProgrammingError in its place
DescribeTableFails ==
    /\ sel_pc = "primary_key"
    /\ n_describe_table' = n_describe_table + 1
    /\ sel_pc' = "raised"
    /\ sel_err' = "ProgrammingError"
    /\ lookup_failed' = "describe_table"
    /\ UNCHANGED <<statement, table_name, index_pos, described, use_index>>
    /\ UNCHANGED exec_vars
    /\ UNCHANGED conv_vars

\* lines 80-83: one turn of the loop: describe the index, return it if it qualifies
DescribeSearchIndex ==
    /\ sel_pc = "indexes"
    /\ index_pos <= Len(SearchIndexesOf(table_name))
    /\ LET index_name == SearchIndexesOf(table_name)[index_pos]
           index_field_set == IndexFieldsOf(table_name, index_name)
       IN  /\ described' = Append(described, index_name)
           /\ IF Qualifies(index_field_set, NeedFieldSet(statement))
              THEN /\ use_index' = UseIndex(SEARCH_INDEX, index_name, <<>>, <<>>, <<>>, <<>>, "")
                   /\ sel_pc' = "done"
                   /\ UNCHANGED index_pos
              ELSE /\ index_pos' = index_pos + 1
                   /\ UNCHANGED <<use_index, sel_pc>>
    /\ UNCHANGED <<statement, table_name, n_describe_table, sel_err>>
    /\ UNCHANGED lookup_failed
    /\ UNCHANGED exec_vars
    /\ UNCHANGED conv_vars

\* a test that sends aggregations on to the primary-key path
PrimaryKeyServesAll(other_field_set) == FALSE

\* line 87: `if other_field_set:`
NeedsSearchIndex(other_field_set) == other_field_set # {}

\* lines 85-88: no index qualified; aggregation and GROUP BY need one
NoSearchIndex ==
    /\ sel_pc = "indexes"
    /\ index_pos > Len(SearchIndexesOf(table_name))
    /\ IF NeedsSearchIndex(OtherFieldSet(statement))
       THEN /\ sel_pc' = "raised"
            /\ sel_err' = "ProgrammingError"
       ELSE /\ sel_pc' = "primary_key"
            /\ UNCHANGED sel_err
    /\ UNCHANGED <<statement, table_name, index_pos, described, n_describe_table, use_index>>
    /\ UNCHANGED lookup_failed
    /\ UNCHANGED exec_vars
    /\ UNCHANGED conv_vars

\* a WHERE check that lets every column through
EveryFieldCovered(where_field_set, primary_key_set) == FALSE

\* line 95: `len(where_field_set - set(primary_key_list)) > 0`
FieldNotCovered(where_field_set, primary_key_set) == where_field_set \ primary_key_set # {}

\* lines 90-101: describe_table, then the WHERE and ORDER BY checks
DescribeTable ==
    /\ sel_pc = "primary_key"
    /\ n_describe_table' = n_describe_table + 1
    /\ LET primary_key_set == {PrimaryKeyOf(table_name)[i] :
                                   i \in 1..Len(PrimaryKeyOf(table_name))}
       IN  IF FieldNotCovered(WhereFieldSet(statement), primary_key_set)
           THEN sel_pc' = "raised" /\ sel_err' = "ProgrammingError"
           ELSE IF OrderFieldSet(statement) # {}
           THEN sel_pc' = "raised" /\ sel_err' = "NotSupportedError"
           ELSE sel_pc' = "plan" /\ UNCHANGED sel_err
    /\ UNCHANGED <<statement, table_name, index_pos, described, use_index>>
    /\ UNCHANGED lookup_failed
    /\ UNCHANGED exec_vars
    /\ UNCHANGED conv_vars

\* lines 103-188: the primary-key descriptor, or the exception
PlanPrimaryKey ==
    /\ sel_pc = "plan"
    /\ LET result == PrimaryKeyPlan(PrimaryKeyOf(table_name), statement.where_clause)
       IN  /\ use_index' = result.use_index
           /\ sel_err' = result.error
           /\ sel_pc' = IF result.error = "none" THEN "done" ELSE "raised"
    /\ UNCHANGED <<statement, table_name, index_pos, described, n_describe_table>>
    /\ UNCHANGED lookup_failed
    /\ UNCHANGED exec_vars
    /\ UNCHANGED conv_vars

SelectNext ==
    \/ RejectStatement
    \/ ListSearchIndex
    \/ ListSearchIndexFails
    \/ DescribeSearchIndex
    \/ DescribeSearchIndexFails
    \/ NoSearchIndex
    \/ DescribeTable
    \/ DescribeTableFails
    \/ PlanPrimaryKey

SelectSpec == SelectInit /\ [][SelectNext]_vars

-----------------------------------------------------------------------------
(***************************************************************************)
(* The predicate translator: convert/where_clause.py                       *)
(***************************************************************************)

(* tablestore queries, one record per class *)

\* a keyword argument left at its default None
NoneValue == <<"None">>

MatchAllQuery == [type |-> "MatchAllQuery"]
TermQuery(field_name, column_value) ==
    [type |-> "TermQuery", field_name |-> field_name, column_value |-> column_value]
RangeQuery(field_name, range_from, include_lower, range_to, include_upper) ==
    [type |-> "RangeQuery", field_name |-> field_name,
     range_from |-> range_from, include_lower |-> include_lower,
     range_to |-> range_to, include_upper |-> include_upper]
ExistsQuery(field_name) == [type |-> "ExistsQuery", field_name |-> field_name]
TermsQuery(field_name, column_values) ==
    [type |-> "TermsQuery", field_name |-> field_name, column_values |-> column_values]
WildcardQuery(field_name, value) ==
    [type |-> "WildcardQuery", field_name |-> field_name, value |-> value]
BoolQuery(must_queries, must_not_queries, should_queries) ==
    [type |-> "BoolQuery", must_queries |-> must_queries,
     must_not_queries |-> must_not_queries, should_queries |-> should_queries]

MustNot(condition) == BoolQuery(<<>>, <<condition>>, <<>>)

\* what a call gives: the query it returns, or the exception it raises
QueryReturned(query) == [error |-> "none", query |-> query]
QueryRaised(error) == [error |-> error, query |-> [type |-> "None"]]

\* lines 74-145, the branches `column op literal`
RangeColumnFirst(field_name, op, value) ==
    CASE op = "<"  -> RangeQuery(field_name, NoneValue, FALSE, value, FALSE)
      [] op = "<=" -> RangeQuery(field_name, NoneValue, FALSE, value, TRUE)
      [] op = ">"  -> RangeQuery(field_name, value, FALSE, NoneValue, FALSE)
      [] op = ">=" -> RangeQuery(field_name, value, TRUE, NoneValue, FALSE)

\* lines 74-145, the branches `literal op column`
RangeLiteralFirst(field_name, op, value) ==
    CASE op = "<"  -> RangeQuery(field_name, value, FALSE, NoneValue, FALSE)
      [] op = "<=" -> RangeQuery(field_name, value, TRUE, NoneValue, FALSE)
      [] op = ">"  -> RangeQuery(field_name, NoneValue, FALSE, value, FALSE)
      [] op = ">=" -> RangeQuery(field_name, NoneValue, FALSE, value, TRUE)

\* a translation that reads `literal op column` as `column op literal`
ComparisonRangeOneSided(field_name, op, column_first, value) ==
    RangeColumnFirst(field_name, op, value)

\* lines 74-145: the range of an inequality, by the side the column is on
ComparisonRange(field_name, op, column_first, value) ==
    IF column_first
    THEN RangeColumnFirst(field_name, op, value)
    ELSE RangeLiteralFirst(field_name, op, value)

\* lines 57-161: a comparison node
ComparisonQuery(node) ==
    LET op == node.operator
        column_first == IsColumn(node.before_value) /\ IsLiteral(node.after_value)
        literal_first == IsLiteral(node.before_value) /\ IsColumn(node.after_value)
        column == IF column_first THEN node.before_value ELSE node.after_value
        literal == IF column_first THEN node.after_value ELSE node.before_value
    IN  IF op \notin {"=", "<", "<=", ">", ">=", "!="} THEN QueryRaised("KeyError")
        ELSE IF ~(column_first \/ literal_first) THEN QueryRaised("NotSupportedError")
        ELSE IF op = "=" THEN
            QueryReturned(TermQuery(column.column_name, Strip(literal.source)))
        ELSE IF op = "!=" THEN
            QueryReturned(MustNot(TermQuery(column.column_name, Strip(literal.source))))
        ELSE QueryReturned(ComparisonRange(column.column_name, op, column_first,
                                           Strip(literal.source)))

\* lines 174-177, 197-200, 208-211: `if ast_node.is_not: BoolQuery(must_not_queries=[condition])`
WrapWhenNegated(is_not, condition) ==
    IF is_not THEN MustNot(condition) ELSE condition

\* an IS branch wired like the BETWEEN, IN and LIKE branches
ExistsWhenPlain(is_not, condition) ==
    IF is_not THEN MustNot(condition) ELSE condition

\* lines 186-189: `if ast_node.is_not: return condition`, else the must-not wrapping
ExistsWhenNegated(is_not, condition) ==
    IF is_not THEN condition ELSE MustNot(condition)

\* str.upper() of the characters the inputs hold
Upper(chars) ==
    [i \in 1..Len(chars) |->
        CASE chars[i] = "n" -> "N" [] chars[i] = "u" -> "U" [] chars[i] = "l" -> "L"
          [] chars[i] = "s" -> "S" [] chars[i] = "a" -> "A" [] chars[i] = "b" -> "B"
          [] OTHER -> chars[i]]

\* str.replace("%", "*")
ReplacePercent(chars) == [i \in 1..Len(chars) |-> IF chars[i] = "%" THEN "*" ELSE chars[i]]

\* lines 57-225
RECURSIVE change_ast_node_to_tablestore_query(_)
change_ast_node_to_tablestore_query(ast_node) ==
    CASE ast_node.type = "ASTOperatorConditionExpression" -> ComparisonQuery(ast_node)
      [] ast_node.type = "ASTBetweenExpression" ->
            IF ~IsColumn(ast_node.before_value) THEN QueryRaised("NotSupportedError")
            ELSE IF ~IsLiteral(ast_node.from_value) \/ ~IsLiteral(ast_node.to_value)
                 THEN QueryRaised("NotSupportedError")
            ELSE QueryReturned(WrapWhenNegated(ast_node.is_not,
                     RangeQuery(ast_node.before_value.column_name,
                                Strip(ast_node.from_value.source), TRUE,
                                Strip(ast_node.to_value.source), TRUE)))
      [] ast_node.type = "ASTIsExpression" ->
            IF ~IsColumn(ast_node.before_value) THEN QueryRaised("NotSupportedError")
            ELSE IF ~IsLiteral(ast_node.after_value) THEN QueryRaised("NotSupportedError")
            ELSE IF Upper(ast_node.after_value.source) # <<"N", "U", "L", "L">>
                 THEN QueryRaised("NotSupportedError")
            ELSE QueryReturned(ExistsWhenNegated(ast_node.is_not,
                     ExistsQuery(ast_node.before_value.column_name)))
      [] ast_node.type = "ASTInExpression" ->
            IF ~IsColumn(ast_node.before_value) THEN QueryRaised("NotSupportedError")
            ELSE IF ast_node.after_value.type # "ASTSubValueExpression"
                 THEN QueryRaised("NotSupportedError")
            ELSE QueryReturned(WrapWhenNegated(ast_node.is_not,
                     TermsQuery(ast_node.before_value.column_name,
                                [i \in 1..Len(ast_node.after_value.values) |->
                                    Strip(ast_node.after_value.values[i].source)])))
      [] ast_node.type = "ASTLikeExpression" ->
            IF ~IsColumn(ast_node.before_value) THEN QueryRaised("NotSupportedError")
            ELSE IF ~IsLiteral(ast_node.after_value) THEN QueryRaised("NotSupportedError")
            ELSE QueryReturned(WrapWhenNegated(ast_node.is_not,
                     WildcardQuery(ast_node.before_value.column_name,
                                   ReplacePercent(Strip(ast_node.after_value.source)))))
      [] ast_node.type = "ASTLogicalAndExpression" ->
            LET condition1 == change_ast_node_to_tablestore_query(ast_node.before_value)
                condition2 == change_ast_node_to_tablestore_query(ast_node.after_value)
            IN  IF condition1.error # "none" THEN condition1
                ELSE IF condition2.error # "none" THEN condition2
                ELSE QueryReturned(BoolQuery(<<condition1.query, condition2.query>>, <<>>, <<>>))
      [] ast_node.type = "ASTLogicalOrExpression" ->
            LET condition1 == change_ast_node_to_tablestore_query(ast_node.before_value)
                condition2 == change_ast_node_to_tablestore_query(ast_node.after_value)
            IN  IF condition1.error # "none" THEN condition1
                ELSE IF condition2.error # "none" THEN condition2
                ELSE QueryReturned(BoolQuery(<<>>, <<>>, <<condition1.query, condition2.query>>))
      [] ast_node.type = "ASTLogicalNotExpression" ->
            LET condition1 == change_ast_node_to_tablestore_query(ast_node.expression)
            IN  IF condition1.error # "none" THEN condition1
                ELSE QueryReturned(MustNot(condition1.query))
      [] ast_node.type = "ASTLogicalXorExpression" -> QueryRaised("NotSupportedError")
      [] OTHER -> QueryRaised("KeyError")

-----------------------------------------------------------------------------
(* The WHERE clauses the translator is run on *)

Lit_null_lower == Literal(<<"n", "u", "l", "l">>)
Lit_pattern == Literal(<<"'", "a", "%", "'">>)

ConvColumns == {"id", "status"}
ConvLiterals == {Lit_us, Lit_10}
ComparisonOperators == {"=", "<", "<=", ">", ">=", "!="}

\* comparisons of a column and a literal, in both operand orders
ConvComparisons ==
    UNION {{ Comparison(Column(c), op, v), Comparison(v, op, Column(c)) } :
              c \in ConvColumns, op \in ComparisonOperators, v \in ConvLiterals}

\* the other node classes, plain and negated, and the shapes the translator refuses
ConvOtherLeaves ==
    UNION {{ Between(Column("id"), n, Lit_10, Lit_20),
             Between(Lit_10, n, Lit_10, Lit_20),
             Between(Column("id"), n, Column("status"), Lit_20),
             IsExpr(Column("status"), n, Lit_null),
             IsExpr(Column("status"), n, Lit_null_lower),
             IsExpr(Column("status"), n, Lit_10),
             IsExpr(Lit_10, n, Lit_null),
             InExpr(Column("status"), n, <<Lit_a, Lit_b>>),
             InExpr(Lit_a, n, <<Lit_a, Lit_b>>),
             LikeExpr(Column("status"), n, Lit_pattern),
             LikeExpr(Column("status"), n, Column("id")) } : n \in BOOLEAN}
    \cup { Comparison(Column("id"), "=", Column("status")),
           Comparison(Lit_10, "<", Lit_20),
           Comparison(Column("id"), "<>", Lit_10) }

\* the operands of the combinators
ConvOperands ==
    { Comparison(Column("id"), ">", Lit_10),
      Comparison(Lit_10, "<", Column("id")),
      IsExpr(Column("status"), TRUE, Lit_null),
      Comparison(Lit_10, "<", Lit_20) }

ConvConditions ==
    ConvComparisons \cup ConvOtherLeaves
    \cup {And(a, b) : a \in ConvOperands, b \in ConvOperands}
    \cup {Or(a, b) : a \in ConvOperands, b \in ConvOperands}
    \cup {Xor(a, b) : a \in ConvOperands, b \in ConvOperands}
    \cup {Not(a) : a \in ConvOperands}

ConvInit ==
    /\ conv_where_clause \in {NoWhereClause} \cup {WhereClause(c) : c \in ConvConditions}
    /\ conv_pc = "start"
    /\ converted = NotConverted
    /\ ExecIdle
    /\ SelIdle

\* convert_where_clause, lines 38-39: no WHERE clause matches every row
ConvertNoWhereClause ==
    /\ conv_pc = "start"
    /\ conv_where_clause = NoWhereClause
    /\ converted' = QueryReturned(MatchAllQuery)
    /\ conv_pc' = "done"
    /\ UNCHANGED conv_where_clause
    /\ UNCHANGED <<exec_vars, sel_vars>>

\* convert_where_clause, lines 40-41: the translation of where_clause.condition
ConvertWhereClause ==
    /\ conv_pc = "start"
    /\ conv_where_clause # NoWhereClause
    /\ converted' = change_ast_node_to_tablestore_query(conv_where_clause.condition)
    /\ conv_pc' = IF converted'.error = "none" THEN "done" ELSE "raised"
    /\ UNCHANGED conv_where_clause
    /\ UNCHANGED <<exec_vars, sel_vars>>

ConvNext == ConvertNoWhereClause \/ ConvertWhereClause

ConvertSpec == ConvInit /\ [][ConvNext]_vars

-----------------------------------------------------------------------------
(* Properties of the predicate translator (ConvertSpec) *)

Mirrored(op) ==
    CASE op = "<" -> ">" [] op = "<=" -> ">=" [] op = ">" -> "<" [] op = ">=" -> "<="
      [] OTHER -> op

\* convert_where_clause was given a comparison of a column and a literal, the
\* column first, and has ended
ColumnFirstConverted ==
    /\ conv_pc \in {"done", "raised"}
    /\ conv_where_clause # NoWhereClause
    /\ conv_where_clause.condition.type = "ASTOperatorConditionExpression"
    /\ conv_where_clause.condition.operator \in ComparisonOperators
    /\ IsColumn(conv_where_clause.condition.before_value)
    /\ IsLiteral(conv_where_clause.condition.after_value)

\* C14: for a column c, a literal v and op among <, <=, >, >=, the translator
\* gives `c op v` and `v op' c`, op' the mirrored operator, the same Range
\* (field, bound side, bound value, inclusivity); `=` gives the same Term and
\* `!=` the same must-not Term in either operand order.
C14_OperandOrder ==
    ColumnFirstConverted =>
        LET node == conv_where_clause.condition
            c == node.before_value
            v == node.after_value
            op == node.operator
            value == Strip(v.source)
            swapped == change_ast_node_to_tablestore_query(
                           Comparison(v, Mirrored(op), c))
        IN  /\ converted.error = "none"
            /\ converted = swapped
            /\ op \in {"<", "<="} =>
                  converted.query = RangeQuery(c.column_name, NoneValue, FALSE,
                                               value, op = "<=")
            /\ op \in {">", ">="} =>
                  converted.query = RangeQuery(c.column_name, value, op = ">=",
                                               NoneValue, FALSE)
            /\ op = "=" => converted.query = TermQuery(c.column_name, value)
            /\ op = "!=" => converted.query = MustNot(TermQuery(c.column_name, value))

\* C14 witness: `id <= 10` was translated to a range closed above at 10
C14_Witness ==
    /\ ColumnFirstConverted
    /\ conv_where_clause.condition = Comparison(Column("id"), "<=", Lit_10)
    /\ converted.query.type = "RangeQuery"
    /\ converted.query.include_upper

\* convert_where_clause has returned the translation of a node of the class
Translated(type) ==
    /\ conv_pc = "done"
    /\ conv_where_clause # NoWhereClause
    /\ conv_where_clause.condition.type = type

\* C15: the translator maps `col IS NOT NULL` to Exists(col) and `col IS NULL`
\* to Bool{mustNot: [Exists(col)]}; for Between, In and Like the negated form
\* is the one wrapped in Bool{mustNot} and the plain form is returned unwrapped.
C15_NegationWiring ==
    /\ Translated("ASTIsExpression") =>
          LET node == conv_where_clause.condition
              exists == ExistsQuery(node.before_value.column_name)
          IN  converted.query = IF node.is_not THEN exists ELSE MustNot(exists)
    /\ \A type \in {"ASTBetweenExpression", "ASTInExpression", "ASTLikeExpression"} :
          Translated(type) =>
              LET node == conv_where_clause.condition
                  plain == change_ast_node_to_tablestore_query(
                               [node EXCEPT !.is_not = FALSE]).query
              IN  /\ plain.type \in {"RangeQuery", "TermsQuery", "WildcardQuery"}
                  /\ converted.query = IF node.is_not THEN MustNot(plain) ELSE plain

\* C15 witness: `status IS NULL` was translated to the must-not of Exists(status)
C15_Witness ==
    /\ Translated("ASTIsExpression")
    /\ ~conv_where_clause.condition.is_not
    /\ converted.query = MustNot(ExistsQuery("status"))

-----------------------------------------------------------------------------
(* Properties of the access-path selector (SelectSpec) *)

PrimaryKey == PrimaryKeyOf(table_name)
PrimaryKeySet == {PrimaryKey[i] : i \in 1..Len(PrimaryKey)}
PrimaryKeyTypes == {PRIMARY_KEY_GET, PRIMARY_KEY_BATCH, PRIMARY_KEY_RANGE}

\* the field names of a key, in the order the key lists them
KeyFields(key) == [i \in 1..Len(key) |-> key[i][1]]

\* the primary-key path was taken to its end: lines 103-188 have run
PlanDone ==
    /\ sel_pc \in {"done", "raised"}
    /\ n_describe_table = 1
    /\ lookup_failed = "none"
    /\ WhereFieldSet(statement) \subseteq PrimaryKeySet
    /\ OrderFieldSet(statement) = {}

\* the statement has a WHERE clause the extractor accepts
Extractable ==
    /\ statement.where_clause # NoWhereClause
    /\ get_condition_in_where_clause(statement.where_clause.condition).error = "none"

\* the (op, value) constraints the WHERE clause puts on a field
Constraints(field_name) ==
    ConditionOfField(
        get_condition_in_where_clause(statement.where_clause.condition).conditions,
        field_name)

HasIn(f) == \E i \in 1..Len(Constraints(f)) : Constraints(f)[i][1] = "IN"
Unconstrained(f) == Constraints(f) = <<>>
InequalityBounded(f) ==
    \E i \in 1..Len(Constraints(f)) : Constraints(f)[i][1] \in {"<", "<=", ">", ">="}

\* C7: choose_tablestore_index returns the SearchIndex descriptor of the first
\* index, in list_search_index order, whose fields are a strict superset of
\* needed = other + where + order; an index holding exactly the needed fields
\* does not qualify, and no index after the selected one is described.
C7_FirstStrictSuperset ==
    LET names == SearchIndexesOf(table_name)
        need == NeedFieldSet(statement)
        strict(k) == /\ need \subseteq IndexFieldsOf(table_name, names[k])
                     /\ IndexFieldsOf(table_name, names[k]) \ need # {}
    IN  /\ (sel_pc = "done" /\ use_index.index_type = SEARCH_INDEX) =>
              \E k \in 1..Len(names) :
                  /\ use_index.index_name = names[k]
                  /\ strict(k)
                  /\ \A j \in 1..(k - 1) : ~strict(j)
                  /\ described = SubSeq(names, 1, k)
        /\ (sel_pc \in {"done", "raised"} /\ statement.type \in {SELECT, UPDATE, DELETE}
              /\ lookup_failed = "none"
              /\ \E k \in 1..Len(names) : strict(k)) =>
              /\ sel_pc = "done"
              /\ use_index.index_type = SEARCH_INDEX

\* C7 witness: the first index holds exactly the needed fields and is passed
\* over, the second is returned, the third is never described
C7_Witness ==
    /\ sel_pc = "done"
    /\ table_name = "indexed"
    /\ NeedFieldSet(statement) = IndexFieldsOf(table_name, "idx_pk")
    /\ use_index.index_name = "idx_wide"
    /\ described = <<"idx_pk", "idx_wide">>

\* C8: in every primary-key descriptor returned, the key of PrimaryKeyGet, each
\* key of PrimaryKeyBatch and the start and end key of PrimaryKeyRange list
\* every primary-key field once, in the table's order, whatever the order of
\* the fields in the WHERE clause.
C8_KeyFieldOrder ==
    sel_pc = "done" =>
        /\ use_index.index_type = PRIMARY_KEY_GET =>
              KeyFields(use_index.primary_key) = PrimaryKey
        /\ use_index.index_type = PRIMARY_KEY_BATCH =>
              \A i \in 1..Len(use_index.rows_to_get) :
                  KeyFields(use_index.rows_to_get[i]) = PrimaryKey
        /\ use_index.index_type = PRIMARY_KEY_RANGE =>
              /\ KeyFields(use_index.start_key) = PrimaryKey
              /\ KeyFields(use_index.end_key) = PrimaryKey

\* C8 witness: a range descriptor for `id >= 10 AND region = 'us'` on (region, id)
C8_Witness ==
    /\ sel_pc = "done"
    /\ use_index.index_type = PRIMARY_KEY_RANGE
    /\ PrimaryKey = <<"region", "id">>
    /\ statement.where_clause =
          WhereClause(And(Comparison(Column("id"), ">=", Lit_10),
                          Comparison(Column("region"), "=", Lit_us)))

\* one primary-key field has an IN constraint while another is unconstrained
\* or bounded by an inequality
MixedModes ==
    \E f \in PrimaryKeySet : \E g \in PrimaryKeySet \ {f} :
        HasIn(f) /\ (Unconstrained(g) \/ InequalityBounded(g))

\* C9: the selector never emits a descriptor mixing accurate-mode and
\* range-mode: a statement with IN on one primary-key field and no constraint or
\* an inequality on another fails (unsupported operation); a Get/Batch descriptor
\* is built from `=`/`IN` constraints only, a Range descriptor from `=`,
\* inequalities and unconstrained fields only.
C9_NeverMixed ==
    /\ (PlanDone /\ Extractable /\ MixedModes) =>
          /\ sel_pc = "raised"
          /\ sel_err = "NotSupportedError"
          /\ use_index = NoUseIndex
    /\ (sel_pc = "done" /\ use_index.index_type \in {PRIMARY_KEY_GET, PRIMARY_KEY_BATCH}) =>
          /\ Extractable
          /\ \A f \in PrimaryKeySet :
                /\ Len(Constraints(f)) = 1
                /\ Constraints(f)[1][1] \in {"=", "IN"}
    /\ (sel_pc = "done" /\ use_index.index_type = PRIMARY_KEY_RANGE) =>
          /\ Extractable
          /\ \A f \in PrimaryKeySet : ~HasIn(f)

\* C9 witness: `region IN ('a','b') AND id >= 10` was planned and refused
C9_Witness ==
    /\ PlanDone
    /\ Extractable
    /\ HasIn("region")
    /\ InequalityBounded("id")
    /\ PrimaryKey = <<"region", "id">>
    /\ sel_pc = "raised"

\* every primary-key field has exactly one constraint, an `=` or an IN
NotRangeMode ==
    /\ Extractable
    /\ \A f \in PrimaryKeySet :
          /\ Len(Constraints(f)) = 1
          /\ Constraints(f)[1][1] \in {"=", "IN"}

\* the values a field may take: the one of `=`, the listed ones of IN
ValuesOf(f) ==
    IF Constraints(f)[1][1] = "=" THEN <<Constraints(f)[1][2]>> ELSE Constraints(f)[1][2]

\* the number of tuples that agree on the fields up to the j-th
RECURSIVE TuplesAfter(_)
TuplesAfter(j) ==
    IF j >= Len(PrimaryKey) THEN 1
    ELSE Len(ValuesOf(PrimaryKey[j + 1])) * TuplesAfter(j + 1)

\* the k-th tuple of the product, the last field varying fastest
ProductTuple(k) ==
    [j \in 1..Len(PrimaryKey) |->
        <<PrimaryKey[j],
          ValuesOf(PrimaryKey[j])[(((k - 1) \div TuplesAfter(j))
                                      % Len(ValuesOf(PrimaryKey[j]))) + 1]>>]

\* C10: when the plan is not range-mode the selector enumerates exactly the
\* Cartesian product, in primary-key field order, of each field's values (one
\* for `=`, the listed ones for IN); one tuple gives PrimaryKeyGet, more give
\* PrimaryKeyBatch with all of them; `id IN ('a','b')` on key (id) gives
\* [[(id,'a')],[(id,'b')]].
C10_CartesianProduct ==
    /\ (PlanDone /\ NotRangeMode) =>
          /\ sel_pc = "done"
          /\ IF TuplesAfter(0) = 1
             THEN use_index = UseIndex(PRIMARY_KEY_GET, "", ProductTuple(1),
                                       <<>>, <<>>, <<>>, "")
             ELSE use_index = UseIndex(PRIMARY_KEY_BATCH, "", <<>>,
                                       [k \in 1..TuplesAfter(0) |-> ProductTuple(k)],
                                       <<>>, <<>>, "")
    /\ (PlanDone /\ PrimaryKey = <<"id">>
          /\ statement.where_clause =
                WhereClause(InExpr(Column("id"), FALSE, <<Lit_a, Lit_b>>))) =>
          /\ use_index.index_type = PRIMARY_KEY_BATCH
          /\ use_index.rows_to_get = << << <<"id", <<"a">> >> >>, << <<"id", <<"b">> >> >> >>

\* C10 witness: two IN lists of two values on (region, id): a batch of four keys
C10_Witness ==
    /\ PlanDone
    /\ NotRangeMode
    /\ Len(PrimaryKey) = 2
    /\ use_index.index_type = PRIMARY_KEY_BATCH
    /\ Len(use_index.rows_to_get) = 4

\* the conjuncts of a predicate, left to right
RECURSIVE Conjuncts(_)
Conjuncts(ast_node) ==
    IF ast_node.type = "ASTLogicalAndExpression"
    THEN Conjuncts(ast_node.before_value) \o Conjuncts(ast_node.after_value)
    ELSE <<ast_node>>

\* the predicate is `region = 'us' AND id >= 10 AND id < 20`, in some order and nesting
RegionAndIdRange ==
    /\ statement.where_clause # NoWhereClause
    /\ Len(Conjuncts(statement.where_clause.condition)) = 3
    /\ {Conjuncts(statement.where_clause.condition)[i] : i \in 1..3} =
          { Comparison(Column("region"), "=", Lit_us),
            Comparison(Column("id"), ">=", Lit_10),
            Comparison(Column("id"), "<", Lit_20) }

\* C11: on a table with primary key (region, id) and no qualifying search
\* index, the predicate `region = 'us' AND id >= 10 AND id < 20`, its conjuncts
\* in any order, gives PrimaryKeyRange with start key [(region, us), (id, 10)],
\* end key [(region, us), (id, 20)] and forward direction (values are the
\* unquoted literal text).
C11_RegionIdRange ==
    (PlanDone /\ PrimaryKey = <<"region", "id">> /\ RegionAndIdRange) =>
        /\ sel_pc = "done"
        /\ use_index = UseIndex(PRIMARY_KEY_RANGE, "", <<>>, <<>>,
                                << <<"region", <<"u", "s">> >>, <<"id", <<"1", "0">> >> >>,
                                << <<"region", <<"u", "s">> >>, <<"id", <<"2", "0">> >> >>,
                                FORWARD)

\* C11 witness: the conjuncts in the order `id < 20 AND region = 'us' AND id >= 10`
C11_Witness ==
    /\ PlanDone
    /\ PrimaryKey = <<"region", "id">>
    /\ RegionAndIdRange
    /\ Conjuncts(statement.where_clause.condition)[1] = Comparison(Column("id"), "<", Lit_20)
    /\ Conjuncts(statement.where_clause.condition)[3] = Comparison(Column("id"), ">=", Lit_10)
    /\ use_index.index_type = PRIMARY_KEY_RANGE

\* no search index of the table holds a strict superset of the needed fields
NoQualifyingIndex ==
    \A k \in 1..Len(SearchIndexesOf(table_name)) :
        ~Qualifies(IndexFieldsOf(table_name, SearchIndexesOf(table_name)[k]),
                   NeedFieldSet(statement))

\* choose_tablestore_index has returned or raised
SelectEnded == sel_pc \in {"done", "raised"}

\* C12: when no search index is a strict superset of the needed fields and a
\* column of the WHERE predicate is not a primary-key field (`status = 'x'`,
\* status outside the key), the selector fails with the no-satisfying-index
\* error (ProgrammingError) and returns no descriptor.
C12_NoSatisfyingIndex ==
    (/\ SelectEnded
     /\ lookup_failed = "none"
     /\ statement.type \in {SELECT, UPDATE, DELETE}
     /\ NoQualifyingIndex
     /\ WhereFieldSet(statement) \ PrimaryKeySet # {}) =>
        /\ sel_pc = "raised"
        /\ sel_err = "ProgrammingError"
        /\ use_index = NoUseIndex

\* C12 witness: `status = 'us'` on a table keyed by id alone, without indexes,
\* was refused after describe_table
C12_Witness ==
    /\ SelectEnded
    /\ table_name = "by_id"
    /\ statement.where_clause = WhereClause(Comparison(Column("status"), "=", Lit_us))
    /\ OtherFieldSet(statement) = {}
    /\ n_describe_table = 1
    /\ lookup_failed = "none"
    /\ sel_pc = "raised"

\* C16: the primary-key condition extractor the selector uses turns
\* `col BETWEEN a AND b` into the two constraints (col, >=, a) and (col, <=, b).
C16_BetweenTwoConstraints ==
    (/\ PlanDone
     /\ statement.where_clause # NoWhereClause
     /\ statement.where_clause.condition.type = "ASTBetweenExpression") =>
        LET node == statement.where_clause.condition
        IN  get_condition_in_where_clause(node) =
                Returned(<< <<node.before_value.column_name, ">=", Strip(node.from_value.source)>>,
                            <<node.before_value.column_name, "<=", Strip(node.to_value.source)>> >>)

\* C17: when a schema lookup call of the selector fails (list_search_index,
\* describe_search_index or describe_table), the caller gets the
\* schema-unavailable error wrapping the failure (ProgrammingError) and no
\* descriptor.
C17_LookupFailureWrapped ==
    (SelectEnded /\ lookup_failed # "none") =>
        /\ sel_pc = "raised"
        /\ sel_err = "ProgrammingError"
        /\ use_index = NoUseIndex

\* C18: a statement without WHERE, aggregation, GROUP BY and ORDER BY, on a
\* table with no qualifying search index, gets a PrimaryKeyRange whose start
\* key holds the minimum sentinel and whose end key holds the maximum sentinel
\* for every primary-key field.
C18_NoWhereFullRange ==
    (/\ SelectEnded
     /\ lookup_failed = "none"
     /\ statement.type \in {SELECT, UPDATE, DELETE}
     /\ NoQualifyingIndex
     /\ statement.where_clause = NoWhereClause
     /\ OtherFieldSet(statement) = {}
     /\ OrderFieldSet(statement) = {}) =>
        /\ sel_pc = "done"
        /\ use_index = UseIndex(PRIMARY_KEY_RANGE, "", <<>>, <<>>,
                                [i \in 1..Len(PrimaryKey) |-> <<PrimaryKey[i], INF_MIN>>],
                                [i \in 1..Len(PrimaryKey) |-> <<PrimaryKey[i], INF_MAX>>],
                                FORWARD)

\* the tree holds an Or, Not, Xor, Is or Like node or a `!=` comparison
RECURSIVE HasUnsupported(_)
HasUnsupported(ast_node) ==
    \/ ast_node.type \in {"ASTLogicalOrExpression", "ASTLogicalNotExpression",
                          "ASTLogicalXorExpression", "ASTIsExpression",
                          "ASTLikeExpression"}
    \/ ast_node.type = "ASTOperatorConditionExpression" /\ ast_node.operator = "!="
    \/ /\ ast_node.type = "ASTLogicalAndExpression"
       /\ HasUnsupported(ast_node.before_value) \/ HasUnsupported(ast_node.after_value)

\* every comparison of the tree has one of the six operators of the grammar
RECURSIVE KnownOperators(_)
KnownOperators(ast_node) ==
    CASE ast_node.type = "ASTOperatorConditionExpression" ->
            ast_node.operator \in ComparisonOperators
      [] ast_node.type \in {"ASTLogicalAndExpression", "ASTLogicalOrExpression",
                            "ASTLogicalXorExpression"} ->
            KnownOperators(ast_node.before_value) /\ KnownOperators(ast_node.after_value)
      [] ast_node.type = "ASTLogicalNotExpression" -> KnownOperators(ast_node.expression)
      [] OTHER -> TRUE

\* C19: on the primary-key path (no qualifying index, every WHERE column in the
\* key, no ORDER BY) a predicate tree holding Or, Not, Xor, Is, Like or `!=`
\* anywhere makes the selector fail with NotSupportedError; an And node gives
\* the constraints of its left side followed by those of its right side.
C19_OnlyAndCombines ==
    (PlanDone /\ statement.where_clause # NoWhereClause) =>
        LET node == statement.where_clause.condition
        IN  /\ (HasUnsupported(node) /\ KnownOperators(node)) =>
                  /\ sel_pc = "raised"
                  /\ sel_err = "NotSupportedError"
                  /\ use_index = NoUseIndex
            /\ node.type = "ASTLogicalAndExpression" =>
                  LET left == get_condition_in_where_clause(node.before_value)
                      right == get_condition_in_where_clause(node.after_value)
                      both == get_condition_in_where_clause(node)
                  IN  IF left.error = "none" /\ right.error = "none"
                      THEN both = Returned(left.conditions \o right.conditions)
                      ELSE both.error # "none"

\* C19 witness: `region = 'us' AND NOT id = 10` was refused
C19_Witness ==
    /\ PlanDone
    /\ statement.where_clause =
          WhereClause(And(Comparison(Column("region"), "=", Lit_us),
                          Not(Comparison(Column("id"), "=", Lit_10))))
    /\ sel_err = "NotSupportedError"

\* the operators of the constraints on a field, as a bag would hold them:
\* how many constraints on f have the operator
CountOp(f, op) ==
    Len(SelectSeq(Constraints(f), LAMBDA c : c[1] = op))

\* the field has two constraints, one `<` and one `>=`
BoundedPair(f) ==
    /\ Len(Constraints(f)) = 2
    /\ CountOp(f, "<") = 1
    /\ CountOp(f, ">=") = 1

\* the value of the one constraint on f with the operator
ValueOfOp(f, op) == SelectSeq(Constraints(f), LAMBDA c : c[1] = op)[1][2]

\* the position of a field in the primary key
PositionOf(f) == CHOOSE i \in 1..Len(PrimaryKey) : PrimaryKey[i] = f

\* C21: on the primary-key path, two constraints on one primary-key field are
\* accepted only when they are one `<` and one `>=`, in either textual order,
\* and then the `>=` value is the lower bound and the `<` value the upper
\* bound; any other pair fails, and so do three or more constraints on a field.
C21_TwoConstraints ==
    (PlanDone /\ Extractable) =>
        \A f \in PrimaryKeySet :
            /\ Len(Constraints(f)) >= 3 =>
                  sel_pc = "raised" /\ sel_err = "NotSupportedError"
            /\ (Len(Constraints(f)) = 2 /\ ~BoundedPair(f)) =>
                  sel_pc = "raised" /\ sel_err = "NotSupportedError"
            /\ (/\ BoundedPair(f)
                /\ \A g \in PrimaryKeySet \ {f} :
                      \/ Unconstrained(g)
                      \/ BoundedPair(g)
                      \/ Len(Constraints(g)) = 1 /\ ~HasIn(g)) =>
                  /\ sel_pc = "done"
                  /\ use_index.index_type = PRIMARY_KEY_RANGE
                  /\ use_index.start_key[PositionOf(f)] = <<f, ValueOfOp(f, ">=")>>
                  /\ use_index.end_key[PositionOf(f)] = <<f, ValueOfOp(f, "<")>>

\* C21 witness: `id < 20 AND id >= 10`, the `<` written first, gave a range
\* from 10 to 20 on id
C21_Witness ==
    /\ PlanDone
    /\ statement.where_clause =
          WhereClause(And(Comparison(Column("id"), "<", Lit_20),
                          Comparison(Column("id"), ">=", Lit_10)))
    /\ PrimaryKey = <<"id">>
    /\ use_index.start_key = << <<"id", <<"1", "0">> >> >>
    /\ use_index.end_key = << <<"id", <<"2", "0">> >> >>

\* C22: when no search index qualifies and the statement has arguments of
\* aggregate functions other than `*`, or GROUP BY columns, the selector fails
\* (ProgrammingError) before describe_table is called, whatever the WHERE
\* columns and the ORDER BY: this failure comes before those two.
C22_AggregationFirst ==
    (/\ SelectEnded
     /\ lookup_failed = "none"
     /\ statement.type \in {SELECT, UPDATE, DELETE}
     /\ NoQualifyingIndex
     /\ OtherFieldSet(statement) # {}) =>
        /\ sel_pc = "raised"
        /\ sel_err = "ProgrammingError"
        /\ n_describe_table = 0
        /\ use_index = NoUseIndex

\* C22 witness: GROUP BY status ORDER BY id with `status = 'us'` in WHERE, on
\* a table keyed by id without indexes, failed without a describe_table
C22_Witness ==
    /\ SelectEnded
    /\ lookup_failed = "none"
    /\ table_name = "by_id"
    /\ statement.group_by_columns = {"status"}
    /\ OrderFieldSet(statement) # {}
    /\ WhereFieldSet(statement) \ PrimaryKeySet # {}
    /\ sel_err = "ProgrammingError"
    /\ n_describe_table = 0

(* The order of the store on primary keys, and the meaning of a predicate *)

\* code point order of the characters the values hold
CharRank(ch) ==
    CASE ch = "0" -> 48 [] ch = "1" -> 49 [] ch = "2" -> 50 [] ch = "5" -> 53
      [] ch = "a" -> 97 [] ch = "b" -> 98 [] ch = "s" -> 115 [] ch = "u" -> 117
      [] OTHER -> 0

\* string order
RECURSIVE StrLess(_, _)
StrLess(a, b) ==
    IF a = <<>> THEN b # <<>>
    ELSE IF b = <<>> THEN FALSE
    ELSE IF Head(a) = Head(b) THEN StrLess(Tail(a), Tail(b))
    ELSE CharRank(Head(a)) < CharRank(Head(b))

\* order of key values: INF_MIN below and INF_MAX above every value
ValueLess(a, b) ==
    IF a = b THEN FALSE
    ELSE IF a = INF_MIN \/ b = INF_MAX THEN TRUE
    ELSE IF a = INF_MAX \/ b = INF_MIN THEN FALSE
    ELSE StrLess(a, b)

\* order of primary keys: field by field, in primary-key order
RECURSIVE KeyLess(_, _)
KeyLess(key1, key2) ==
    IF key1 = <<>> THEN FALSE
    ELSE IF Head(key1)[2] = Head(key2)[2] THEN KeyLess(Tail(key1), Tail(key2))
    ELSE ValueLess(Head(key1)[2], Head(key2)[2])

\* get_range(inclusive_start_primary_key, exclusive_end_primary_key), FORWARD
InKeyRange(key, start_key, end_key) == ~KeyLess(key, start_key) /\ KeyLess(key, end_key)

\* `x op v`
Holds(x, op, v) ==
    CASE op = "="  -> x = v
      [] op = "!=" -> x # v
      [] op = "<"  -> StrLess(x, v)
      [] op = "<=" -> StrLess(x, v) \/ x = v
      [] op = ">"  -> StrLess(v, x)
      [] op = ">=" -> StrLess(v, x) \/ x = v
      [] OTHER     -> FALSE

\* the row with the primary key satisfies the predicate: comparisons of a
\* key column and a literal, IN lists, and their conjunctions
RECURSIVE Satisfies(_, _)
Satisfies(key, ast_node) ==
    CASE ast_node.type = "ASTLogicalAndExpression" ->
            Satisfies(key, ast_node.before_value) /\ Satisfies(key, ast_node.after_value)
      [] ast_node.type = "ASTOperatorConditionExpression" ->
            IF IsColumn(ast_node.before_value)
            THEN Holds(key[PositionOf(ast_node.before_value.column_name)][2],
                       ast_node.operator, Strip(ast_node.after_value.source))
            ELSE Holds(key[PositionOf(ast_node.after_value.column_name)][2],
                       Mirrored(ast_node.operator), Strip(ast_node.before_value.source))
      [] ast_node.type = "ASTInExpression" ->
            LET x == key[PositionOf(ast_node.before_value.column_name)][2]
                listed == \E i \in 1..Len(ast_node.after_value.values) :
                              x = Strip(ast_node.after_value.values[i].source)
            IN  IF ast_node.is_not THEN ~listed ELSE listed
      [] OTHER -> FALSE

\* values of key columns, below, at, between and above the literals of the statements
KeyValues == {<<"0", "5">>, <<"1", "0">>, <<"1", "5">>, <<"2", "0">>, <<"u", "s">>}

\* the primary keys of the table built of those values
CandidateKeys ==
    {[i \in 1..Len(PrimaryKey) |-> <<PrimaryKey[i], choice[i]>>] :
        choice \in [1..Len(PrimaryKey) -> KeyValues]}

\* C23: for every statement that gets a PrimaryKeyRange, a primary key lies in
\* [start key, end key) in the order of the primary key if and only if it
\* satisfies the WHERE predicate, also when an `=`- or inequality-constrained
\* field follows an unconstrained or inequality-constrained one.
C23_RangeIsPredicate ==
    (sel_pc = "done" /\ use_index.index_type = PRIMARY_KEY_RANGE) =>
        \A key \in CandidateKeys :
            InKeyRange(key, use_index.start_key, use_index.end_key)
                <=> Satisfies(key, statement.where_clause.condition)

\* values a column may hold: the key values and a value of the IN lists
ColumnValues == KeyValues \cup {Strip(Lit_a.source)}

\* a column holding x satisfies the leaf of the predicate: a comparison of the
\* column and a literal in either order, or an IN list
LeafHolds(x, ast_node) ==
    CASE ast_node.type = "ASTOperatorConditionExpression" ->
            IF IsColumn(ast_node.before_value)
            THEN Holds(x, ast_node.operator, Strip(ast_node.after_value.source))
            ELSE Holds(x, Mirrored(ast_node.operator), Strip(ast_node.before_value.source))
      [] ast_node.type = "ASTInExpression" ->
            LET listed == \E i \in 1..Len(ast_node.after_value.values) :
                              x = Strip(ast_node.after_value.values[i].source)
            IN  IF ast_node.is_not THEN ~listed ELSE listed
      [] OTHER -> FALSE

\* a column holding x satisfies the constraint (field, op, value)
ConstraintHolds(x, constraint) ==
    IF constraint[2] = "IN"
    THEN \E i \in 1..Len(constraint[3]) : x = constraint[3][i]
    ELSE Holds(x, constraint[2], constraint[3])

\* the comparison has an orientation the extractor does not take:
\* `col <= lit`, `col > lit`, `lit < col` or `lit >= col`
RejectedOrientation(ast_node) ==
    /\ ast_node.type = "ASTOperatorConditionExpression"
    /\ \/ /\ IsColumn(ast_node.before_value) /\ IsLiteral(ast_node.after_value)
          /\ ast_node.operator \in {"<=", ">"}
       \/ /\ IsLiteral(ast_node.before_value) /\ IsColumn(ast_node.after_value)
          /\ ast_node.operator \in {"<", ">="}

\* C24: every constraint get_condition_in_where_clause emits has an operator
\* in {=, <, >=, IN} and holds of exactly the column values its source node
\* holds of; `col <= lit`, `col > lit`, `lit < col` and `lit >= col` are
\* rejected; the selector's unknown-operator branch is never taken.
C24_ConstraintsEquivalent ==
    (PlanDone /\ statement.where_clause # NoWhereClause) =>
        LET leaves == Conjuncts(statement.where_clause.condition)
        IN  /\ \A i \in 1..Len(leaves) :
                  LET got == get_condition_in_where_clause(leaves[i])
                  IN  /\ got.error = "none" =>
                            \A j \in 1..Len(got.conditions) :
                                /\ got.conditions[j][2] \in {"=", "<", ">=", "IN"}
                                /\ \A x \in ColumnValues :
                                      ConstraintHolds(x, got.conditions[j])
                                          <=> LeafHolds(x, leaves[i])
                      /\ RejectedOrientation(leaves[i]) => got.error = "NotSupportedError"
            /\ Extractable =>
                  \A i \in 1..Len(PrimaryKey) :
                      PlanField(PrimaryKey[i], Constraints(PrimaryKey[i])).error
                          # "ProgrammingError"

=============================================================================
